---------------------------- MODULE Spec2Model ----------------------------
(***************************************************************************)
(* TrynerApp motion engine: the repetition detector (RepDetector /         *)
(* SquatDetector), the feature extractor, the scoring engine, the low-pass *)
(* filter and signal processor, the sensor adapter and the MotionEngine    *)
(* orchestrator, as one state machine.                                     *)
(*                                                                         *)
(* Units.  Accelerations are fixed-point integers in hundredths of a G     *)
(* (1.00 G = 100), times are integer milliseconds, quality scores are      *)
(* integers in thousandths of a point (100 points = 100000).  The source   *)
(* computes in IEEE doubles; every comparison the source makes against a   *)
(* threshold is made here on the same quantities, scaled.  A division      *)
(* truncates towards minus infinity; a comparison of a quotient with a     *)
(* whole threshold is unchanged by that truncation.                        *)
(*                                                                         *)
(* Seven specifications are given.  SpecDet drives a SquatDetector         *)
(* directly with processed samples (detect / reset / setConfig),           *)
(* SpecFilter a LowPassFilter (construct / setAlpha / filter / reset),     *)
(* SpecScore a ScoringEngine (construct / setWeights / score) and SpecPeak *)
(* a PeakDetector (setConfig / findPeaks / findValleys on a growing        *)
(* window).  SpecRun starts the MotionEngine and feeds it a squat          *)
(* waveform, sample after sample; SpecSession repeats the waveform, lets   *)
(* the detector be reconfigured and the sensor stall.  Spec drives the     *)
(* whole MotionEngine: lifecycle calls, the asynchronous sensor handshake  *)
(* of start(), and samples delivered by live sensor listeners.  Under Spec *)
(* a stage or an external handler may throw while a sample is handled: as  *)
(* a transient fault of one delivery, or, for the signal processor, on     *)
(* every sample from the first one on (broken).  The external handlers     *)
(* onRepDetected and onError may throw; onStateChange is taken to return   *)
(* normally, and no handler calls back into the engine.                    *)
(***************************************************************************)
EXTENDS Integers, Sequences, FiniteSets, TLC

VARIABLES
  detector,   \* the SquatDetector instance (fields of RepDetector + config)
  filter,     \* the LowPassFilter owned by the SignalProcessor
  engine,     \* the MotionEngine's own fields
  adapter,    \* the SensorAdapter's fields
  listeners,  \* native accelerometer listeners currently registered
  pending,    \* start() calls suspended in the sensor handshake
  now,        \* wall clock (Date.now()), ms
  nSamples,   \* samples delivered so far
  nStarts,    \* start() calls made so far
  nCalls,     \* pause/resume/stop/setConfig calls made so far
  nFaults,    \* transient faults (throws, sensor stalls) injected so far
  broken,     \* environment: the signal processor throws on every sample
  returned,   \* repNumbers returned by detect since the last detector reset
  session,    \* observer: what has happened since the last start()/stop()
  scorer,     \* a ScoringEngine driven directly (SpecScore)
  feed,       \* environment: the waveform the sensor is producing (SpecRun)
  peaks,      \* a PeakDetector and the window it is handed (SpecPeak)
  ev          \* observer: the operation of the last step and its outcome

vars == << detector, filter, engine, adapter, listeners, pending, now,
           nSamples, nStarts, nCalls, nFaults, broken, returned, session,
           scorer, feed, peaks, ev >>

detVars == << detector, now, nSamples, returned, ev >>
benchVars == << scorer, feed, peaks >>
engOnlyVars == << filter, engine, adapter, listeners, pending, nStarts, nCalls,
                 nFaults, broken, session, scorer, feed, peaks >>

-----------------------------------------------------------------------------
(* Bounds of the model *)

\* SpecDet: detect calls, and the time at which the clock stops (ms)
MaxSamples == 12
MaxTime == 8000

\* Spec: start() calls, pause/resume/stop/setConfig calls, transient faults,
\* and deliveries to an engine whose signal processor is broken
MaxStarts == 2
MaxCalls == 2
MaxFaults == 1
MaxBrokenDeliveries == 12

\* SpecFilter: filter calls
MaxFilterCalls == 4

\* SpecRun: samples the sensor produces, and standing samples before the
\* descent of the waveform begins
MaxFeed == 245
MaxStand == 2

\* Spec: a run is explored while its effort is within MaxEffort; a start()
\* call, an API call and a broken processor weigh as many deliveries as
\* StartCost, CallCost and BreakCost say, a delivery to a healthy pipeline 1
MaxEffort == 14
StartCost == 5
CallCost == 4
BreakCost == 4

-----------------------------------------------------------------------------
(* Program constants *)

Infinity == 1000000000
NaN == 2000000000
MAGNITUDE_DROP_THRESHOLD == 30
MAGNITUDE_RISE_THRESHOLD == 15
PHASE_TIMEOUT == 5000
MAX_RECENT_DATA == 60
MAX_CONSECUTIVE_ERRORS == 10
NoRep == [none |-> TRUE]
NoTime == -1

\* DEFAULT_SQUAT_CONFIG (lowPassAlpha in hundredths)
DEFAULT_SQUAT_CONFIG ==
  [ minDepthThreshold |-> 8,  minZAxisChange |-> -10,
    minRepDuration |-> 100,   maxRepDuration |-> 60000,
    minStabilityScore |-> 0,  minDepthScore |-> 0,
    lowPassAlpha |-> 22,      samplingRate |-> 60,  bufferSize |-> 240 ]

\* The high-specificity values documented on SquatDetectionConfig
DOCUMENTED_SQUAT_CONFIG ==
  [ minDepthThreshold |-> 80, minZAxisChange |-> -60,
    minRepDuration |-> 800,   maxRepDuration |-> 5000,
    minStabilityScore |-> 65, minDepthScore |-> 70,
    lowPassAlpha |-> 22,      samplingRate |-> 60,  bufferSize |-> 240 ]

\* setConfig({minStabilityScore: 65, minDepthScore: 70}) applied to the default
QUALITY_SQUAT_CONFIG ==
  [ DEFAULT_SQUAT_CONFIG EXCEPT !.minStabilityScore = 65, !.minDepthScore = 70 ]

ConfigSet == { DEFAULT_SQUAT_CONFIG, DOCUMENTED_SQUAT_CONFIG, QUALITY_SQUAT_CONFIG }

-----------------------------------------------------------------------------
(* Input sets *)

\* processed samples fed to a bare detector: <<filteredMagnitude, filteredZ>>
DetSamples == { <<100, 100>>, <<60, 60>>, <<60, 5>>, <<20, 5>> }
\* time between two samples, ms
DetDt == { 100, 2600 }

-----------------------------------------------------------------------------
(* RepFeatureExtractor *)

Min(a, b) == IF a <= b THEN a ELSE b
Max(a, b) == IF a >= b THEN a ELSE b
Abs(a) == IF a < 0 THEN -a ELSE a

calculateDepthScore(magnitudeChange) ==
  IF magnitudeChange >= 120 THEN 100000
  ELSE IF magnitudeChange >= 100 THEN 90000
  ELSE IF magnitudeChange >= 80 THEN 70000
  ELSE IF magnitudeChange >= 60 THEN 50000
  ELSE Max(0, (magnitudeChange * 50000) \div 60)

calculateStabilityScore(descendDuration, ascendDuration) ==
  IF ascendDuration = 0 \/ descendDuration = 0 THEN 0
  ELSE LET lo == Min(descendDuration, ascendDuration)
           hi == Max(descendDuration, ascendDuration)
       IN  \* ratio = lo / hi
           IF 10 * lo >= 9 * hi THEN 100000
           ELSE IF 10 * lo >= 7 * hi THEN 85000
           ELSE IF 10 * lo >= 5 * hi THEN 65000
           ELSE IF 10 * lo >= 3 * hi THEN 40000
           ELSE Max(0, (lo * 100000) \div hi)

calculateRangeScore(magnitudeChange) ==
  IF magnitudeChange >= 120 THEN 100000
  ELSE IF magnitudeChange >= 100 THEN 90000
  ELSE IF magnitudeChange >= 80 THEN 70000
  ELSE IF magnitudeChange >= 60 THEN 50000
  ELSE Max(0, (magnitudeChange * 50000) \div 60)

extract(data) ==
  LET descendDuration == data.bottomTime - data.descendStartTime
      ascendDuration == data.completionTime - data.ascendStartTime
      totalDuration == data.completionTime - data.descendStartTime
      magnitudeChange == data.peakMagnitude - data.valleyMagnitude
      zAxisChange == data.valleyZValue - data.peakZValue
  IN [ descendDuration |-> descendDuration,
       ascendDuration |-> ascendDuration,
       totalDuration |-> totalDuration,
       depthScore |-> calculateDepthScore(magnitudeChange),
       stabilityScore |-> calculateStabilityScore(descendDuration, ascendDuration),
       rangeScore |-> calculateRangeScore(magnitudeChange),
       peakMagnitude |-> data.peakMagnitude,
       valleyMagnitude |-> data.valleyMagnitude,
       magnitudeChange |-> magnitudeChange,
       zAxisChange |-> zAxisChange ]

-----------------------------------------------------------------------------
(* RepDetector (abstract base) *)

NewDetector(config) ==
  [ currentPhase |-> "idle", repCount |-> 0,
    repStartTime |-> 0, descendStartTime |-> 0, bottomTime |-> 0,
    ascendStartTime |-> 0,
    peakMagnitude |-> 0, valleyMagnitude |-> Infinity,
    peakZValue |-> 0, valleyZValue |-> 0,
    config |-> config ]

\* mutant: the valley of the last rep survives the reset
resetRepStateKeepsValley(d) ==
  [ d EXCEPT !.repStartTime = 0, !.descendStartTime = 0, !.bottomTime = 0,
             !.ascendStartTime = 0, !.peakMagnitude = 0,
             !.peakZValue = 0, !.valleyZValue = 0 ]

resetRepState(d) ==
  [ d EXCEPT !.repStartTime = 0, !.descendStartTime = 0, !.bottomTime = 0,
             !.ascendStartTime = 0, !.peakMagnitude = 0,
             !.valleyMagnitude = Infinity, !.peakZValue = 0, !.valleyZValue = 0 ]

detectorReset(d) ==
  resetRepState([ d EXCEPT !.currentPhase = "idle", !.repCount = 0 ])

transitionToPhase(d, newPhase) == [ d EXCEPT !.currentPhase = newPhase ]

isValidDuration(startTime, endTime, minDuration, maxDuration) ==
  LET duration == endTime - startTime
  IN  duration >= minDuration /\ duration <= maxDuration

calculateDuration(startTime, endTime) == endTime - startTime

updatePeakMagnitude(d, magnitude) ==
  IF magnitude > d.peakMagnitude THEN [ d EXCEPT !.peakMagnitude = magnitude ] ELSE d

updateValleyMagnitude(d, magnitude) ==
  IF magnitude < d.valleyMagnitude THEN [ d EXCEPT !.valleyMagnitude = magnitude ] ELSE d

updateZAxisTracking(d, z) ==
  LET d1 == IF z > d.peakZValue THEN [ d EXCEPT !.peakZValue = z ] ELSE d
  IN  IF z < d1.valleyZValue THEN [ d1 EXCEPT !.valleyZValue = z ] ELSE d1

isNaN(v) == v = NaN

isFinite(v) == v # Infinity /\ v # -Infinity /\ ~isNaN(v)

calculateMagnitudeChange(d) ==
  IF ~isFinite(d.valleyMagnitude) THEN 0
  ELSE d.peakMagnitude - d.valleyMagnitude

calculateZAxisChange(d) == d.valleyZValue - d.peakZValue

-----------------------------------------------------------------------------
(* SquatDetector.  Every handler returns the detector after the call, the  *)
(* value detect returns (a rep or NoRep) and, for the observer, the        *)
(* candidate createDetectedRep built in that call (or NoRep).              *)

Outcome(d, rep, candidate) == [ det |-> d, rep |-> rep, candidate |-> candidate ]

\* mutant: the rep is numbered with the count itself
createDetectedRepCountAsNumber(d, timestamp) ==
  [ repNumber |-> d.repCount,
    timestamp |-> timestamp,
    duration |-> calculateDuration(d.repStartTime, timestamp),
    depth |-> calculateMagnitudeChange(d),
    isValid |-> FALSE,
    features |-> extract([ descendStartTime |-> d.descendStartTime,
                           bottomTime |-> d.bottomTime,
                           ascendStartTime |-> d.ascendStartTime,
                           completionTime |-> timestamp,
                           peakMagnitude |-> d.peakMagnitude,
                           valleyMagnitude |-> d.valleyMagnitude,
                           peakZValue |-> d.peakZValue,
                           valleyZValue |-> d.valleyZValue ]) ]

createDetectedRep(d, timestamp) ==
  [ repNumber |-> d.repCount + 1,
    timestamp |-> timestamp,
    duration |-> calculateDuration(d.repStartTime, timestamp),
    depth |-> calculateMagnitudeChange(d),
    isValid |-> FALSE,
    features |-> extract([ descendStartTime |-> d.descendStartTime,
                           bottomTime |-> d.bottomTime,
                           ascendStartTime |-> d.ascendStartTime,
                           completionTime |-> timestamp,
                           peakMagnitude |-> d.peakMagnitude,
                           valleyMagnitude |-> d.valleyMagnitude,
                           peakZValue |-> d.peakZValue,
                           valleyZValue |-> d.valleyZValue ]) ]

\* mutant: the stability check is missing
validateRepNoStability(d, rep) ==
  IF rep.depth < d.config.minDepthThreshold THEN FALSE
  ELSE IF Abs(rep.features.zAxisChange) < Abs(d.config.minZAxisChange) THEN FALSE
  ELSE IF ~isValidDuration(d.repStartTime, rep.timestamp,
                           d.config.minRepDuration, d.config.maxRepDuration) THEN FALSE
  ELSE IF rep.features.depthScore < d.config.minDepthScore * 1000 THEN FALSE
  ELSE TRUE

\* TRUE iff the rep passes; the caller sets isValid on the rep it returns
validateRep(d, rep) ==
  IF rep.depth < d.config.minDepthThreshold THEN FALSE
  ELSE IF Abs(rep.features.zAxisChange) < Abs(d.config.minZAxisChange) THEN FALSE
  ELSE IF ~isValidDuration(d.repStartTime, rep.timestamp,
                           d.config.minRepDuration, d.config.maxRepDuration) THEN FALSE
  ELSE IF rep.features.stabilityScore < d.config.minStabilityScore * 1000 THEN FALSE
  ELSE IF rep.features.depthScore < d.config.minDepthScore * 1000 THEN FALSE
  ELSE TRUE

handleIdlePhase(d, data) ==
  LET magnitudeChange == d.peakMagnitude - data.filteredMagnitude
  IN  IF magnitudeChange > MAGNITUDE_DROP_THRESHOLD
      THEN LET d1 == resetRepState(d)
               d2 == [ d1 EXCEPT !.repStartTime = data.timestamp,
                                 !.descendStartTime = data.timestamp ]
               d3 == updatePeakMagnitude(d2, data.filteredMagnitude)
           IN  Outcome(transitionToPhase(d3, "descending"), NoRep, NoRep)
      ELSE Outcome(d, NoRep, NoRep)

\* mutant: the bottom trigger is tested before the timeout
handleDescendingPhaseTriggerFirst(d, data) ==
  LET timeInDescending == data.timestamp - d.descendStartTime
      magnitudeRise == data.filteredMagnitude - d.valleyMagnitude
  IN  IF magnitudeRise > MAGNITUDE_RISE_THRESHOLD
      THEN Outcome(transitionToPhase([ d EXCEPT !.bottomTime = data.timestamp ], "bottom"),
                   NoRep, NoRep)
      ELSE IF timeInDescending > PHASE_TIMEOUT
      THEN Outcome(resetRepState(transitionToPhase(d, "idle")), NoRep, NoRep)
      ELSE Outcome(d, NoRep, NoRep)

handleDescendingPhase(d, data) ==
  LET timeInDescending == data.timestamp - d.descendStartTime
      magnitudeRise == data.filteredMagnitude - d.valleyMagnitude
  IN  IF timeInDescending > PHASE_TIMEOUT
      THEN Outcome(resetRepState(transitionToPhase(d, "idle")), NoRep, NoRep)
      ELSE IF magnitudeRise > MAGNITUDE_RISE_THRESHOLD
      THEN Outcome(transitionToPhase([ d EXCEPT !.bottomTime = data.timestamp ], "bottom"),
                   NoRep, NoRep)
      ELSE Outcome(d, NoRep, NoRep)

\* mutant: the bottom is left only once the magnitude is above the valley
handleBottomPhaseWaits(d, data) ==
  IF data.filteredMagnitude > d.valleyMagnitude
  THEN Outcome(transitionToPhase([ d EXCEPT !.ascendStartTime = data.timestamp ],
                                 "ascending"), NoRep, NoRep)
  ELSE Outcome(d, NoRep, NoRep)

handleBottomPhase(d, data) ==
  Outcome(transitionToPhase([ d EXCEPT !.ascendStartTime = data.timestamp ], "ascending"),
          NoRep, NoRep)

\* mutant: completion is triggered by the depth (peak - valley), not the recovery
handleAscendingPhaseDepthTrigger(d, data) ==
  LET timeInAscending == data.timestamp - d.ascendStartTime
      magnitudeRecovery == d.peakMagnitude - d.valleyMagnitude
  IN  IF timeInAscending > PHASE_TIMEOUT
      THEN Outcome(resetRepState(transitionToPhase(d, "idle")), NoRep, NoRep)
      ELSE IF magnitudeRecovery >= d.config.minDepthThreshold
      THEN LET rep == createDetectedRep(d, data.timestamp)
           IN  IF validateRep(d, rep)
               THEN LET d1 == [ d EXCEPT !.repCount = d.repCount + 1 ]
                    IN  Outcome(resetRepState(transitionToPhase(d1, "idle")),
                                [ rep EXCEPT !.isValid = TRUE ], rep)
               ELSE Outcome(resetRepState(transitionToPhase(d, "idle")), NoRep, rep)
      ELSE Outcome(d, NoRep, NoRep)

handleAscendingPhase(d, data) ==
  LET timeInAscending == data.timestamp - d.ascendStartTime
      magnitudeRecovery == data.filteredMagnitude - d.valleyMagnitude
  IN  IF timeInAscending > PHASE_TIMEOUT
      THEN Outcome(resetRepState(transitionToPhase(d, "idle")), NoRep, NoRep)
      ELSE IF magnitudeRecovery >= d.config.minDepthThreshold
      THEN LET rep == createDetectedRep(d, data.timestamp)
           IN  IF validateRep(d, rep)
               THEN LET d1 == [ d EXCEPT !.repCount = d.repCount + 1 ]
                    IN  Outcome(resetRepState(transitionToPhase(d1, "idle")),
                                [ rep EXCEPT !.isValid = TRUE ], rep)
               ELSE Outcome(resetRepState(transitionToPhase(d, "idle")), NoRep, rep)
      ELSE Outcome(d, NoRep, NoRep)

\* mutant: the running peak follows the signal only while idle
detectPeakOnlyIdle(d, data) ==
  LET d1 == IF d.currentPhase = "idle"
            THEN updatePeakMagnitude(d, data.filteredMagnitude) ELSE d
      d2 == IF d1.currentPhase = "descending" \/ d1.currentPhase = "bottom"
            THEN updateZAxisTracking(updateValleyMagnitude(d1, data.filteredMagnitude),
                                     data.filteredZ)
            ELSE d1
      d3 == IF d2.currentPhase = "idle"
            THEN updateZAxisTracking(d2, data.filteredZ)
            ELSE d2
  IN  CASE d3.currentPhase = "idle" -> handleIdlePhase(d3, data)
        [] d3.currentPhase = "descending" -> handleDescendingPhase(d3, data)
        [] d3.currentPhase = "bottom" -> handleBottomPhase(d3, data)
        [] d3.currentPhase = "ascending" -> handleAscendingPhase(d3, data)
        [] d3.currentPhase = "completed" -> Outcome(transitionToPhase(d3, "idle"), NoRep, NoRep)

\* mutant: the valley and the z extremes are tracked in every phase but idle
detectTracksAscending(d, data) ==
  LET d1 == updatePeakMagnitude(d, data.filteredMagnitude)
      d2 == IF d1.currentPhase # "idle"
            THEN updateZAxisTracking(updateValleyMagnitude(d1, data.filteredMagnitude),
                                     data.filteredZ)
            ELSE d1
      d3 == IF d2.currentPhase = "idle"
            THEN updateZAxisTracking(d2, data.filteredZ)
            ELSE d2
  IN  CASE d3.currentPhase = "idle" -> handleIdlePhase(d3, data)
        [] d3.currentPhase = "descending" -> handleDescendingPhase(d3, data)
        [] d3.currentPhase = "bottom" -> handleBottomPhase(d3, data)
        [] d3.currentPhase = "ascending" -> handleAscendingPhase(d3, data)
        [] d3.currentPhase = "completed" -> Outcome(transitionToPhase(d3, "idle"), NoRep, NoRep)

detect(d, data) ==
  LET d1 == updatePeakMagnitude(d, data.filteredMagnitude)
      d2 == IF d1.currentPhase = "descending" \/ d1.currentPhase = "bottom"
            THEN updateZAxisTracking(updateValleyMagnitude(d1, data.filteredMagnitude),
                                     data.filteredZ)
            ELSE d1
      d3 == IF d2.currentPhase = "idle"
            THEN updateZAxisTracking(d2, data.filteredZ)
            ELSE d2
  IN  CASE d3.currentPhase = "idle" -> handleIdlePhase(d3, data)
        [] d3.currentPhase = "descending" -> handleDescendingPhase(d3, data)
        [] d3.currentPhase = "bottom" -> handleBottomPhase(d3, data)
        [] d3.currentPhase = "ascending" -> handleAscendingPhase(d3, data)
        [] d3.currentPhase = "completed" -> Outcome(transitionToPhase(d3, "idle"), NoRep, NoRep)

detectorSetConfig(d, config) == [ d EXCEPT !.config = config ]

-----------------------------------------------------------------------------
(* LowPassFilter and SignalProcessor.  alpha is in hundredths; a filtered  *)
(* value is rounded to the nearest hundredth of a G.                       *)

lowPassBlend(alpha, raw, previous) ==
  (alpha * raw + (100 - alpha) * previous + 50) \div 100

\* mutant: the filter remembers the raw input, not what it returned
lowPassFilterKeepsRaw(f, rawX, rawY, rawZ) ==
  IF ~f.isInitialized
  THEN [ f |-> [ f EXCEPT !.previousX = rawX, !.previousY = rawY,
                          !.previousZ = rawZ, !.isInitialized = TRUE ],
         out |-> << rawX, rawY, rawZ >> ]
  ELSE [ f |-> [ f EXCEPT !.previousX = rawX, !.previousY = rawY,
                          !.previousZ = rawZ ],
         out |-> << lowPassBlend(f.alpha, rawX, f.previousX),
                    lowPassBlend(f.alpha, rawY, f.previousY),
                    lowPassBlend(f.alpha, rawZ, f.previousZ) >> ]

\* LowPassFilter.filter: the new filter state and the filtered triple
lowPassFilter(f, rawX, rawY, rawZ) ==
  IF ~f.isInitialized
  THEN [ f |-> [ f EXCEPT !.previousX = rawX, !.previousY = rawY,
                          !.previousZ = rawZ, !.isInitialized = TRUE ],
         out |-> << rawX, rawY, rawZ >> ]
  ELSE LET filteredX == lowPassBlend(f.alpha, rawX, f.previousX)
           filteredY == lowPassBlend(f.alpha, rawY, f.previousY)
           filteredZ == lowPassBlend(f.alpha, rawZ, f.previousZ)
       IN  [ f |-> [ f EXCEPT !.previousX = filteredX, !.previousY = filteredY,
                               !.previousZ = filteredZ ],
             out |-> << filteredX, filteredY, filteredZ >> ]

\* TRUE iff the constructor and setAlpha accept alpha (they throw when
\* alpha < 0 || alpha > 1)
alphaAccepted(alpha) == ~(alpha < 0 \/ alpha > 100)

filterSetAlpha(f, alpha) == [ f EXCEPT !.alpha = alpha ]

filterReset(f) ==
  [ f EXCEPT !.previousX = 0, !.previousY = 0, !.previousZ = 0,
             !.isInitialized = FALSE ]

\* the largest r in lo..hi with r * r <= n (given lo * lo <= n < (hi + 1)^2)
RECURSIVE sqrtBetween(_, _, _)
sqrtBetween(n, lo, hi) ==
  IF lo = hi THEN lo
  ELSE LET mid == (lo + hi + 1) \div 2
       IN  IF mid * mid <= n THEN sqrtBetween(n, mid, hi)
           ELSE sqrtBetween(n, lo, mid - 1)

\* Math.sqrt, truncated to a whole hundredth
MathSqrt(n) == sqrtBetween(n, 0, n)

calculateMagnitude(x, y, z) == MathSqrt(x * x + y * y + z * z)

\* SignalProcessor.process: the new filter state and the processed sample
process(f, raw) ==
  LET r == lowPassFilter(f, raw.x, raw.y, raw.z)
  IN  [ f |-> r.f,
        data |-> [ id |-> raw.id, x |-> raw.x, y |-> raw.y, z |-> raw.z,
                   timestamp |-> raw.timestamp,
                   magnitude |-> calculateMagnitude(raw.x, raw.y, raw.z),
                   filteredX |-> r.out[1], filteredY |-> r.out[2],
                   filteredZ |-> r.out[3],
                   filteredMagnitude |->
                     calculateMagnitude(r.out[1], r.out[2], r.out[3]) ] ]

-----------------------------------------------------------------------------
(* ScoringEngine.  Weights are in thousandths; the sub-scores and the      *)
(* weighted score are in thousandths of a point, the rounded scores of a   *)
(* RepScore in whole points.                                               *)

DEFAULT_WEIGHTS == [ depth |-> 500, stability |-> 300, consistency |-> 200 ]

\* Math.round of a value in thousandths, in whole points
MathRound(v) == IF isNaN(v) THEN NaN ELSE (v + 500) \div 1000

\* mutant: the score is capped at 100 but has no floor
sanitizeScoreNoFloor(s) ==
  IF isNaN(s) \/ ~isFinite(s) THEN 0 ELSE Min(100000, s)

sanitizeScore(s) ==
  IF isNaN(s) \/ ~isFinite(s) THEN 0 ELSE Max(0, Min(100000, s))

\* the sum of the three weights (NaN if one of them is)
SumOfWeights(weights) ==
  IF isNaN(weights.depth) \/ isNaN(weights.stability) \/ isNaN(weights.consistency)
  THEN NaN
  ELSE weights.depth + weights.stability + weights.consistency

\* the scores are sanitized, hence finite; a NaN weight makes the result NaN
calculateWeightedScore(weights, depth, stability, consistency) ==
  IF isNaN(SumOfWeights(weights)) THEN NaN
  ELSE (depth * weights.depth + stability * weights.stability
          + consistency * weights.consistency) \div 1000

\* TRUE iff validateWeights returns normally: it throws when the sum is more
\* than 0.001 away from 1.0, a comparison that is false for a NaN sum
validateWeights(weights) ==
  LET sum == SumOfWeights(weights)
  IN  ~(~isNaN(sum) /\ Abs(sum - 1000) > 1)

\* every comparison with NaN is false
getScoreTechnique(s) ==
  IF isNaN(s) THEN "poor"
  ELSE IF s >= 85000 THEN "excellent"
  ELSE IF s >= 70000 THEN "optimal"
  ELSE IF s >= 50000 THEN "good"
  ELSE IF s >= 0 THEN "acceptable"
  ELSE "poor"

score(weights, features) ==
  LET depth == sanitizeScore(features.depthScore)
      stability == sanitizeScore(features.stabilityScore)
      consistency == sanitizeScore(features.rangeScore)
      overall == calculateWeightedScore(weights, depth, stability, consistency)
  IN  [ overall |-> MathRound(overall),
        depth |-> MathRound(depth),
        stability |-> MathRound(stability),
        consistency |-> MathRound(consistency),
        technique |-> getScoreTechnique(overall) ]

-----------------------------------------------------------------------------
(* PeakDetector.  A signal is a sequence of values in hundredths; indices  *)
(* are the source's, counted from 0, so index i is element i + 1 of the    *)
(* sequence.  The values fed are even, so the baseline's halving is exact. *)

PROMINENCE_WINDOW == 10

\* peakProminence and minPeakDistance documented on SquatDetectionConfig
DEFAULT_PEAK_CONFIG == [ prominence |-> 15, minDistance |-> 30 ]

\* signal[i], i counted from 0
At(signal, i) == signal[i + 1]

\* Array.prototype.slice(start, end) for 0 <= start, end <= length
slice(signal, start, end) == SubSeq(signal, start + 1, end)

RECURSIVE seqMin(_)
seqMin(w) == IF Len(w) = 1 THEN w[1] ELSE Min(w[1], seqMin(Tail(w)))

RECURSIVE seqMax(_)
seqMax(w) == IF Len(w) = 1 THEN w[1] ELSE Max(w[1], seqMax(Tail(w)))

calculateProminence(signal, index, isValley) ==
  LET peakValue == At(signal, index)
      leftStart == Max(0, index - PROMINENCE_WINDOW)
      rightEnd == Min(Len(signal), index + PROMINENCE_WINDOW)
      leftWindow == slice(signal, leftStart, index)
      rightWindow == slice(signal, index + 1, rightEnd)
  IN  IF isValley
      THEN LET leftMax == IF Len(leftWindow) > 0 THEN seqMax(leftWindow) ELSE peakValue
               rightMax == IF Len(rightWindow) > 0 THEN seqMax(rightWindow) ELSE peakValue
           IN  (leftMax + rightMax) \div 2 - peakValue
      ELSE LET leftMin == IF Len(leftWindow) > 0 THEN seqMin(leftWindow) ELSE peakValue
               rightMin == IF Len(rightWindow) > 0 THEN seqMin(rightWindow) ELSE peakValue
           IN  peakValue - (leftMin + rightMin) \div 2

\* mutant: on a tie the later extremum replaces the earlier
RECURSIVE filterLoopLaterOnTie(_, _, _, _, _)
filterLoopLaterOnTie(config, found, k, filtered, lastIndex) ==
  IF k > Len(found) THEN filtered
  ELSE LET peak == found[k]
           distance == IF lastIndex = -Infinity THEN Infinity
                       ELSE peak.index - lastIndex
       IN  IF distance >= config.minDistance
           THEN filterLoopLaterOnTie(config, found, k + 1, Append(filtered, peak),
                                     peak.index)
           ELSE IF peak.prominence >= filtered[Len(filtered)].prominence
           THEN filterLoopLaterOnTie(config, found, k + 1,
                                     [ filtered EXCEPT ![Len(filtered)] = peak ],
                                     peak.index)
           ELSE filterLoopLaterOnTie(config, found, k + 1, filtered, lastIndex)

\* the loop of filterByDistance from element k on; lastIndex starts at -Infinity
RECURSIVE filterLoop(_, _, _, _, _)
filterLoop(config, found, k, filtered, lastIndex) ==
  IF k > Len(found) THEN filtered
  ELSE LET peak == found[k]
           distance == IF lastIndex = -Infinity THEN Infinity
                       ELSE peak.index - lastIndex
       IN  IF distance >= config.minDistance
           THEN filterLoop(config, found, k + 1, Append(filtered, peak), peak.index)
           ELSE IF peak.prominence > filtered[Len(filtered)].prominence
           THEN filterLoop(config, found, k + 1,
                           [ filtered EXCEPT ![Len(filtered)] = peak ], peak.index)
           ELSE filterLoop(config, found, k + 1, filtered, lastIndex)

filterByDistance(config, found) ==
  IF Len(found) <= 1 THEN found
  ELSE filterLoop(config, found, 1, << >>, -Infinity)

\* the local extrema of the signal that pass the prominence threshold, in
\* index order (the scan loop of findPeaks / findValleys from index i on)
RECURSIVE scan(_, _, _, _, _)
scan(config, data, signal, isValley, i) ==
  IF i >= Len(signal) - 1 THEN << >>
  ELSE LET current == At(signal, i)
           previous == At(signal, i - 1)
           next == At(signal, i + 1)
           isExtremum == IF isValley
                         THEN current < previous /\ current < next
                         ELSE current > previous /\ current > next
           prominence == calculateProminence(signal, i, isValley)
           rest == scan(config, data, signal, isValley, i + 1)
       IN  IF isExtremum /\ prominence >= config.prominence
           THEN << [ value |-> current, index |-> i,
                     timestamp |-> At(data, i).timestamp,
                     prominence |-> prominence ] >> \o rest
           ELSE rest

\* findPeaks(data), useFiltered left at its default
findPeaks(config, data) ==
  IF Len(data) < 3 THEN << >>
  ELSE filterByDistance(config,
         scan(config, data, [ i \in 1..Len(data) |-> data[i].filteredMagnitude ],
              FALSE, 1))

\* findValleys(data), useFiltered left at its default
findValleys(config, data) ==
  IF Len(data) < 3 THEN << >>
  ELSE filterByDistance(config,
         scan(config, data, [ i \in 1..Len(data) |-> data[i].filteredZ ],
              TRUE, 1))

-----------------------------------------------------------------------------
(* SensorAdapter.  A subscription is the id of the start() call that       *)
(* registered it, 0 when there is none; the buffers hold sample ids.       *)

adapterStop(a) == [ a EXCEPT !.subscription = 0, !.isActive = FALSE ]

addToBuffer(a, data) ==
  LET pushed == Append(a.buffer, data.id)
  IN  [ a EXCEPT !.buffer = IF Len(pushed) > a.config.bufferSize
                            THEN Tail(pushed) ELSE pushed ]

-----------------------------------------------------------------------------
(* Construction *)

NewFilter(alpha) ==
  [ alpha |-> alpha, previousX |-> 0, previousY |-> 0, previousZ |-> 0,
    isInitialized |-> FALSE ]

NewEngine ==
  [ state |-> "idle", sessionStartTime |-> NoTime, lastRepTimestamp |-> NoTime,
    totalScore |-> 0, scoreCount |-> 0, recentData |-> << >>,
    consecutivePipelineErrors |-> 0 ]

NewAdapter(config) ==
  [ config |-> [ samplingRate |-> config.samplingRate, bufferSize |-> config.bufferSize ],
    buffer |-> << >>, subscription |-> 0, sessionStartTime |-> 0, isActive |-> FALSE ]

\* observer of a session: stop() was called since the last start() call; the
\* circuit breaker tripped and the engine was not activated since; an
\* onRepDetected handler threw since the last start() call
NewSession == [ stopRequested |-> FALSE, tripped |-> FALSE, repThrew |-> FALSE ]

NewScorer(weights) == [ weights |-> weights ]

\* the sensor's waveform: the device is at rest (standing), no sample produced
\* no PeakDetector has been handed a window yet
NewPeaks == [ config |-> DEFAULT_PEAK_CONFIG, window |-> << >> ]

NewFeed == [ leg |-> "stand", k |-> 0, squats |-> 1 ]

Init ==
  /\ detector = NewDetector(DEFAULT_SQUAT_CONFIG)
  /\ filter = NewFilter(DEFAULT_SQUAT_CONFIG.lowPassAlpha)
  /\ engine = NewEngine
  /\ adapter = NewAdapter(DEFAULT_SQUAT_CONFIG)
  /\ listeners = {}
  /\ pending = {}
  /\ now = 0
  /\ nSamples = 0
  /\ nStarts = 0
  /\ nCalls = 0
  /\ nFaults = 0
  /\ broken = FALSE
  /\ returned = << >>
  /\ session = NewSession
  /\ scorer = NewScorer(DEFAULT_WEIGHTS)
  /\ feed = NewFeed
  /\ peaks = NewPeaks
  /\ ev = [ op |-> "init" ]

-----------------------------------------------------------------------------
(* SpecDet: a SquatDetector driven directly.  The observer keeps, in     *)
(* ev.tracked, the filteredZ of the samples detect has run its valley and  *)
(* z tracking on (those that found the phase descending or bottom) for the *)
(* rep in progress.                                                        *)

TrackedZ == IF "tracked" \in DOMAIN ev THEN ev.tracked ELSE { }

\* detector.detect(data), data arriving dt ms after the previous sample
DetDetect ==
  /\ nSamples < MaxSamples
  /\ \E s \in DetSamples, dt \in DetDt :
       LET data == [ filteredMagnitude |-> s[1], filteredZ |-> s[2],
                     timestamp |-> now + dt ]
           r == detect(detector, data)
       IN  /\ now + dt <= MaxTime
           /\ detector' = r.det
           /\ now' = now + dt
           /\ nSamples' = nSamples + 1
           /\ returned' = IF r.rep = NoRep THEN returned
                          ELSE Append(returned, r.rep.repNumber)
           /\ ev' = [ op |-> "detect", pre |-> detector, data |-> data,
                      rep |-> r.rep, candidate |-> r.candidate,
                      tracked |->
                        IF detector.currentPhase \in { "descending", "bottom" }
                        THEN TrackedZ \cup { data.filteredZ }
                        ELSE IF detector.currentPhase = "ascending"
                        THEN TrackedZ ELSE { } ]
  /\ UNCHANGED engOnlyVars

\* detector.reset()
DetReset ==
  /\ detector' = detectorReset(detector)
  /\ returned' = << >>
  /\ ev' = [ op |-> "reset" ]
  /\ UNCHANGED << now, nSamples >>
  /\ UNCHANGED engOnlyVars

\* detector.setConfig(config)
DetSetConfig ==
  /\ \E c \in ConfigSet :
       /\ c # detector.config
       /\ detector' = detectorSetConfig(detector, c)
  /\ ev' = [ op |-> "setConfig", tracked |-> TrackedZ ]
  /\ UNCHANGED << now, nSamples, returned >>
  /\ UNCHANGED engOnlyVars

NextDet == DetDetect \/ DetReset \/ DetSetConfig

SpecDet == Init /\ [][NextDet]_vars

-----------------------------------------------------------------------------
(* SpecFilter: a LowPassFilter driven directly.  The observer keeps, in    *)
(* ev.out, the triple the last filter call returned since the filter was   *)
(* constructed or reset (<< >> when there was no such call).               *)

\* alpha handed to the constructor and to setAlpha (hundredths)
AlphaSet == { -10, 0, 22, 50, 100, 110 }

\* raw (x, y, z) handed to filter
FilterInputs == { << 0, 0, 100 >>, << 100, 0, 20 >>, << -50, 30, 0 >> }

LastOut == IF ev.op = "init" THEN << >> ELSE ev.out

\* new LowPassFilter(alpha); when the constructor throws, the filter in use
\* stays the one constructed before
FilterConstruct ==
  /\ UNCHANGED peaks
  /\ \E a \in AlphaSet :
       IF alphaAccepted(a)
       THEN /\ filter' = NewFilter(a)
            /\ ev' = [ op |-> "newFilter", alpha |-> a, preAlpha |-> filter.alpha,
                       outcome |-> "ok", out |-> << >> ]
       ELSE /\ filter' = filter
            /\ ev' = [ op |-> "newFilter", alpha |-> a, preAlpha |-> filter.alpha,
                       outcome |-> "threw", out |-> LastOut ]
  /\ UNCHANGED << detector, engine, adapter, listeners, pending, now, nSamples,
                  nStarts, nCalls, nFaults, broken, returned, session, scorer,
                  feed >>

\* filter.setAlpha(alpha)
FilterSetAlpha ==
  /\ UNCHANGED peaks
  /\ \E a \in AlphaSet :
       IF alphaAccepted(a)
       THEN /\ filter' = filterSetAlpha(filter, a)
            /\ ev' = [ op |-> "setAlpha", alpha |-> a, preAlpha |-> filter.alpha,
                       outcome |-> "ok", out |-> LastOut ]
       ELSE /\ filter' = filter
            /\ ev' = [ op |-> "setAlpha", alpha |-> a, preAlpha |-> filter.alpha,
                       outcome |-> "threw", out |-> LastOut ]
  /\ UNCHANGED << detector, engine, adapter, listeners, pending, now, nSamples,
                  nStarts, nCalls, nFaults, broken, returned, session, scorer,
                  feed >>

\* filter.filter(rawX, rawY, rawZ)
FilterCall ==
  /\ UNCHANGED peaks
  /\ nSamples < MaxFilterCalls
  /\ \E raw \in FilterInputs :
       LET r == lowPassFilter(filter, raw[1], raw[2], raw[3])
       IN  /\ filter' = r.f
           /\ ev' = [ op |-> "filter", alpha |-> filter.alpha, raw |-> raw,
                      prevOut |-> LastOut, out |-> r.out ]
  /\ nSamples' = nSamples + 1
  /\ UNCHANGED << detector, engine, adapter, listeners, pending, now, nStarts,
                  nCalls, nFaults, broken, returned, session, scorer, feed >>

\* filter.reset()
FilterReset ==
  /\ UNCHANGED peaks
  /\ filter' = filterReset(filter)
  /\ ev' = [ op |-> "reset", out |-> << >> ]
  /\ UNCHANGED << detector, engine, adapter, listeners, pending, now, nSamples,
                  nStarts, nCalls, nFaults, broken, returned, session, scorer,
                  feed >>

NextFilter == FilterConstruct \/ FilterSetAlpha \/ FilterCall \/ FilterReset

SpecFilter == Init /\ [][NextFilter]_vars

-----------------------------------------------------------------------------
(* SpecScore: a ScoringEngine driven directly *)

\* weight vectors handed to the constructor and to setWeights (thousandths)
WeightSet ==
  { DEFAULT_WEIGHTS,
    [ depth |-> 334, stability |-> 333, consistency |-> 333 ],
    [ depth |-> 500, stability |-> 300, consistency |-> 201 ],
    [ depth |-> 500, stability |-> 300, consistency |-> 100 ],
    [ depth |-> 2000, stability |-> -1000, consistency |-> 0 ],
    [ depth |-> -500, stability |-> 1000, consistency |-> 500 ],
    [ depth |-> NaN, stability |-> 300, consistency |-> 200 ] }

\* feature scores handed to score (thousandths of a point)
ScoreValues ==
  { NaN, Infinity, -Infinity, -10000, 84600, 100000, 150000 }

\* new ScoringEngine(weights); when the constructor throws, the engine in
\* use stays the one constructed before
ScorerConstruct ==
  /\ UNCHANGED peaks
  /\ \E w \in WeightSet :
       IF validateWeights(w)
       THEN /\ scorer' = NewScorer(w)
            /\ ev' = [ op |-> "newScorer", weights |-> w, outcome |-> "ok" ]
       ELSE /\ scorer' = scorer
            /\ ev' = [ op |-> "newScorer", weights |-> w, outcome |-> "threw" ]
  /\ UNCHANGED << detector, filter, engine, adapter, listeners, pending, now,
                  nSamples, nStarts, nCalls, nFaults, broken, returned, session,
                  feed >>

\* scorer.setWeights(weights)
ScorerSetWeights ==
  /\ UNCHANGED peaks
  /\ \E w \in WeightSet :
       IF validateWeights(w)
       THEN /\ scorer' = [ scorer EXCEPT !.weights = w ]
            /\ ev' = [ op |-> "setWeights", weights |-> w, outcome |-> "ok" ]
       ELSE /\ scorer' = scorer
            /\ ev' = [ op |-> "setWeights", weights |-> w, outcome |-> "threw" ]
  /\ UNCHANGED << detector, filter, engine, adapter, listeners, pending, now,
                  nSamples, nStarts, nCalls, nFaults, broken, returned, session,
                  feed >>

\* scorer.score(features)
ScorerScore ==
  /\ UNCHANGED peaks
  /\ \E d \in ScoreValues, st \in ScoreValues, r \in ScoreValues :
       LET features == [ depthScore |-> d, stabilityScore |-> st, rangeScore |-> r ]
       IN  ev' = [ op |-> "score", weights |-> scorer.weights,
                   features |-> features,
                   result |-> score(scorer.weights, features) ]
  /\ UNCHANGED << detector, filter, engine, adapter, listeners, pending, now,
                  nSamples, nStarts, nCalls, nFaults, broken, returned, session,
                  scorer, feed >>

NextScore == ScorerConstruct \/ ScorerSetWeights \/ ScorerScore

SpecScore == Init /\ [][NextScore]_vars

-----------------------------------------------------------------------------
(* SpecPeak: a PeakDetector driven directly.  The window it is handed      *)
(* grows sample by sample; a sample is at the base level or one of at most *)
(* MaxExcursions excursions from it.                                       *)

MaxWindow == 12
MaxExcursions == 3

\* the signal levels of a sample (both filteredMagnitude and filteredZ)
PeakLevels == [ low |-> 0, base |-> 50, high |-> 100 ]

PeakValues == { PeakLevels.low, PeakLevels.base, PeakLevels.high }

\* configurations handed to the constructor and to setConfig
PeakConfigs ==
  { DEFAULT_PEAK_CONFIG,
    [ prominence |-> 15, minDistance |-> 3 ],
    [ prominence |-> 75, minDistance |-> 3 ] }

Excursions(window) ==
  Cardinality({ i \in 1..Len(window) : window[i].filteredMagnitude # PeakLevels.base })

\* peakDetector.setConfig(config)
PeakSetConfig ==
  /\ \E c \in PeakConfigs :
       /\ c # peaks.config
       /\ peaks' = [ peaks EXCEPT !.config = c ]
  /\ ev' = [ op |-> "peakConfig" ]
  /\ UNCHANGED << detector, filter, engine, adapter, listeners, pending, now,
                  nSamples, nStarts, nCalls, nFaults, broken, returned, session,
                  scorer, feed >>

\* a processed sample is added to the window
PeakSample ==
  /\ Len(peaks.window) < MaxWindow
  /\ \E v \in PeakValues :
       LET data == [ filteredMagnitude |-> v, filteredZ |-> v,
                     timestamp |-> Len(peaks.window) ]
       IN  /\ Excursions(Append(peaks.window, data)) <= MaxExcursions
           /\ peaks' = [ peaks EXCEPT !.window = Append(@, data) ]
  /\ ev' = [ op |-> "peakSample" ]
  /\ UNCHANGED << detector, filter, engine, adapter, listeners, pending, now,
                  nSamples, nStarts, nCalls, nFaults, broken, returned, session,
                  scorer, feed >>

\* peakDetector.findPeaks(window)
FindPeaks ==
  /\ ev' = [ op |-> "findPeaks", isValley |-> FALSE,
             result |-> findPeaks(peaks.config, peaks.window) ]
  /\ UNCHANGED << detector, filter, engine, adapter, listeners, pending, now,
                  nSamples, nStarts, nCalls, nFaults, broken, returned, session,
                  scorer, feed, peaks >>

\* peakDetector.findValleys(window)
FindValleys ==
  /\ ev' = [ op |-> "findValleys", isValley |-> TRUE,
             result |-> findValleys(peaks.config, peaks.window) ]
  /\ UNCHANGED << detector, filter, engine, adapter, listeners, pending, now,
                  nSamples, nStarts, nCalls, nFaults, broken, returned, session,
                  scorer, feed, peaks >>

NextPeak == PeakSetConfig \/ PeakSample \/ FindPeaks \/ FindValleys

SpecPeak == Init /\ [][NextPeak]_vars

-----------------------------------------------------------------------------
(* MotionEngine.  The operators below act on a "world": the engine's own   *)
(* fields together with the components it owns and the set of native       *)
(* listeners, and return the new world and what the call did (obs).        *)

World ==
  [ engine |-> engine, filter |-> filter, detector |-> detector,
    adapter |-> adapter, listeners |-> listeners ]

\* what a call of the per-sample handler did
NoObs ==
  [ entered |-> FALSE,        \* the pipeline stages were run on the sample
    stageError |-> "none",    \* the stage that threw
    tripped |-> FALSE,        \* the circuit breaker stopped the engine
    onErrorCalls |-> 0,       \* invocations of callbacks.onError
    propagated |-> FALSE,     \* an exception left handleSensorData
    detected |-> 0,           \* repNumber returned by detect (0: null)
    rejected |-> FALSE,       \* detect built a candidate and validation failed
    rep |-> NoRep,            \* argument of callbacks.onRepDetected
    onRepThrew |-> FALSE,
    notified |-> << >> ]      \* arguments of callbacks.onStateChange

Step(w, obs) == [ w |-> w, obs |-> obs ]

setState(e, newState) == [ e EXCEPT !.state = newState ]

\* the onStateChange notifications of setState
Notified(previousState, newState) ==
  IF previousState # newState THEN << newState >> ELSE << >>

\* MotionEngine.stop
engineStop(w) ==
  IF w.engine.state = "idle" \/ w.engine.state = "stopped"
  THEN w
  ELSE [ w EXCEPT !.listeners = @ \ { w.adapter.subscription },
                  !.adapter = adapterStop(@),
                  !.engine = setState(@, "stopped") ]

\* mutant: the cache never evicts
addToRecentDataNoEvict(e, data) ==
  [ e EXCEPT !.recentData = Append(e.recentData, data.id) ]

addToRecentData(e, data) ==
  LET pushed == Append(e.recentData, data.id)
  IN  [ e EXCEPT !.recentData = IF Len(pushed) > MAX_RECENT_DATA
                                THEN Tail(pushed) ELSE pushed ]

\* mutant: the breaker reports the error but leaves the engine running
circuitBreakerNoStop(w, fault) ==
  Step(w, [ NoObs EXCEPT !.tripped = TRUE,
                         !.onErrorCalls = 1,
                         !.propagated = (fault = "onError") ])

\* handleSensorData, the circuit breaker: stop, then one onError
circuitBreaker(w, fault) ==
  LET w1 == engineStop(w)
  IN  Step(w1, [ NoObs EXCEPT !.tripped = TRUE,
                              !.onErrorCalls = 1,
                              !.propagated = (fault = "onError"),
                              !.notified = Notified(w.engine.state, w1.engine.state) ])

\* mutant: onRepDetected is invoked before the session metrics are updated,
\* so a throwing handler skips the update
scoreRepCallbackFirst(w, rep, fault) ==
  IF fault = "scoring"
  THEN Step([ w EXCEPT !.engine.consecutivePipelineErrors = @ + 1 ],
            [ NoObs EXCEPT !.entered = TRUE, !.stageError = "scoring",
                           !.detected = rep.repNumber ])
  ELSE LET sc == score(DEFAULT_WEIGHTS, rep.features)
           obs == [ NoObs EXCEPT !.entered = TRUE,
                                 !.detected = rep.repNumber,
                                 !.rep = [ repNumber |-> rep.repNumber,
                                           isValid |-> rep.isValid,
                                           depth |-> rep.depth,
                                           score |-> sc ],
                                 !.onRepThrew = (fault = "onRepDetected") ]
       IN  IF fault = "onRepDetected"
           THEN Step(w, obs)
           ELSE Step([ w EXCEPT !.engine.lastRepTimestamp = rep.timestamp,
                                !.engine.totalScore = @ + sc.overall,
                                !.engine.scoreCount = @ + 1 ], obs)

\* handleSensorData, stage 4 on a valid rep: score it, update the session
\* metrics, invoke onRepDetected
scoreRep(w, rep, fault) ==
  IF fault = "scoring"
  THEN Step([ w EXCEPT !.engine.consecutivePipelineErrors = @ + 1 ],
            [ NoObs EXCEPT !.entered = TRUE, !.stageError = "scoring",
                           !.detected = rep.repNumber ])
  ELSE LET sc == score(DEFAULT_WEIGHTS, rep.features)
       IN  Step([ w EXCEPT !.engine.lastRepTimestamp = rep.timestamp,
                           !.engine.totalScore = @ + sc.overall,
                           !.engine.scoreCount = @ + 1 ],
                [ NoObs EXCEPT !.entered = TRUE,
                               !.detected = rep.repNumber,
                               !.rep = [ repNumber |-> rep.repNumber,
                                         isValid |-> rep.isValid,
                                         depth |-> rep.depth,
                                         score |-> sc ],
                               !.onRepThrew = (fault = "onRepDetected") ])

\* handleSensorData, the statement after stage 4: the error counter is zeroed
resetErrorCounter(s) ==
  Step([ s.w EXCEPT !.engine.consecutivePipelineErrors = 0 ], s.obs)

\* mutant: stage 4 scores whatever candidate detect built, validated or not
scoreAndResetCandidate(w, r, fault) ==
  resetErrorCounter(IF r.candidate # NoRep
                    THEN scoreRep([ w EXCEPT !.detector = r.det ], r.candidate, fault)
                    ELSE Step([ w EXCEPT !.detector = r.det ],
                              [ NoObs EXCEPT !.entered = TRUE ]))

\* handleSensorData, stage 4 and the counter reset, given detect's outcome r
scoreAndReset(w, r, fault) ==
  resetErrorCounter(IF r.rep # NoRep /\ r.rep.isValid
                    THEN scoreRep([ w EXCEPT !.detector = r.det ], r.rep, fault)
                    ELSE Step([ w EXCEPT !.detector = r.det ],
                              [ NoObs EXCEPT !.entered = TRUE,
                                             !.rejected = (r.candidate # NoRep) ]))

\* handleSensorData, stages 2 and 3, given the processor's outcome p
storeAndDetect(w, p, fault) ==
  IF fault = "detector"
  THEN Step([ w EXCEPT !.filter = p.f,
                       !.engine = [ addToRecentData(@, p.data) EXCEPT
                                      !.consecutivePipelineErrors = @ + 1 ] ],
            [ NoObs EXCEPT !.entered = TRUE, !.stageError = "detector" ])
  ELSE scoreAndReset([ w EXCEPT !.filter = p.f,
                                !.engine = addToRecentData(@, p.data) ],
                     detect(w.detector, p.data), fault)

\* mutant: the handler does not look at the lifecycle state
handleSensorDataAnyState(w, rawData, fault) ==
  IF w.engine.consecutivePipelineErrors >= MAX_CONSECUTIVE_ERRORS
  THEN circuitBreaker(w, fault)
  ELSE IF fault = "processor"
  THEN Step([ w EXCEPT !.engine.consecutivePipelineErrors = @ + 1 ],
            [ NoObs EXCEPT !.entered = TRUE, !.stageError = "processor" ])
  ELSE storeAndDetect(w, process(w.filter, rawData), fault)

\* MotionEngine.handleSensorData; fault names the stage or callback that throws
handleSensorData(w, rawData, fault) ==
  IF w.engine.state # "active" THEN Step(w, NoObs)
  ELSE IF w.engine.consecutivePipelineErrors >= MAX_CONSECUTIVE_ERRORS
  THEN circuitBreaker(w, fault)
  ELSE IF fault = "processor"
  THEN Step([ w EXCEPT !.engine.consecutivePipelineErrors = @ + 1 ],
            [ NoObs EXCEPT !.entered = TRUE, !.stageError = "processor" ])
  ELSE storeAndDetect(w, process(w.filter, rawData), fault)

\* the listener SensorAdapter.start registers: timestamp, buffer, onData
sensorListener(w, sensorData, dateNow, fault) ==
  LET data == [ id |-> sensorData.id, x |-> sensorData.x, y |-> sensorData.y,
                z |-> sensorData.z,
                timestamp |-> dateNow - w.adapter.sessionStartTime ]
  IN  handleSensorData([ w EXCEPT !.adapter = addToBuffer(@, data) ], data, fault)

-----------------------------------------------------------------------------
(* Spec: the whole MotionEngine.  A start() call runs to its first await   *)
(* in the step that makes it; each later step of the call (the sensor      *)
(* availability answer, the permission answer, the continuation of         *)
(* MotionEngine.start after the adapter's promise settled) is a step of    *)
(* its own, so other calls and samples may come in between.                *)

\* raw accelerometer readings (x, y, z) and the gap before a reading
RawSamples == { << 0, 0, 100 >>, << 0, 0, 20 >> }

EngDt == { 100 }

\* what may throw while a sample is handled
Faults == { "none", "processor", "detector", "scoring", "onRepDetected", "onError" }

FaultFires(obs, fault) ==
  \/ fault = "none"
  \/ fault = "onError" /\ obs.tripped
  \/ fault \in { "processor", "detector", "scoring" } /\ obs.stageError = fault
  \/ fault = "onRepDetected" /\ obs.onRepThrew

\* the effort of the run so far
Effort ==
  StartCost * nStarts + CallCost * nCalls + (IF broken THEN BreakCost ELSE nSamples)

\* engine.start(), up to the first await
StartCall ==
  /\ UNCHANGED benchVars
  /\ nStarts < MaxStarts
  /\ Effort + StartCost <= MaxEffort
  /\ nStarts' = nStarts + 1
  /\ IF engine.state = "active"
     THEN /\ session' = [ session EXCEPT !.stopRequested = FALSE ]
          /\ ev' = [ op |-> "start", id |-> nStarts + 1, outcome |-> "alreadyRunning",
                     notified |-> << >> ]
          /\ UNCHANGED << detector, filter, engine, adapter, listeners, pending,
                          returned >>
     ELSE /\ engine' = [ engine EXCEPT !.state = "starting",
                                       !.recentData = << >>,
                                       !.sessionStartTime = now,
                                       !.lastRepTimestamp = NoTime,
                                       !.totalScore = 0,
                                       !.scoreCount = 0,
                                       !.consecutivePipelineErrors = 0 ]
          /\ filter' = filterReset(filter)
          /\ detector' = detectorReset(detector)
          /\ returned' = << >>
          /\ pending' = pending \cup
               { IF adapter.isActive
                 THEN [ id |-> nStarts + 1, at |-> "failed", error |-> "alreadyStarted" ]
                 ELSE [ id |-> nStarts + 1, at |-> "avail", error |-> "none" ] }
          /\ session' = NewSession
          /\ ev' = [ op |-> "start", id |-> nStarts + 1, outcome |-> "awaiting",
                     notified |-> Notified(engine.state, "starting") ]
          /\ UNCHANGED << adapter, listeners >>
  /\ UNCHANGED << now, nSamples, nCalls, nFaults, broken >>

\* Accelerometer.isAvailableAsync() answers a suspended SensorAdapter.start
AvailResolve ==
  /\ UNCHANGED benchVars
  /\ \E p \in pending, isAvailable \in BOOLEAN :
       /\ p.at = "avail"
       /\ pending' = (pending \ { p }) \cup
            { IF isAvailable
              THEN [ p EXCEPT !.at = "perm" ]
              ELSE [ p EXCEPT !.at = "failed", !.error = "unavailable" ] }
  /\ ev' = [ op |-> "handshake" ]
  /\ UNCHANGED << detector, filter, engine, adapter, listeners, now, nSamples,
                  nStarts, nCalls, nFaults, broken, returned, session >>

\* Accelerometer.requestPermissionsAsync() answers; if granted the adapter
\* clears its buffer, registers its listener and becomes active
PermResolve ==
  /\ UNCHANGED benchVars
  /\ \E p \in pending, granted \in BOOLEAN :
       /\ p.at = "perm"
       /\ IF granted
          THEN /\ adapter' = [ adapter EXCEPT !.sessionStartTime = now,
                                              !.buffer = << >>,
                                              !.subscription = p.id,
                                              !.isActive = TRUE ]
               /\ listeners' = listeners \cup { p.id }
               /\ pending' = (pending \ { p }) \cup { [ p EXCEPT !.at = "started" ] }
          ELSE /\ pending' = (pending \ { p }) \cup
                    { [ p EXCEPT !.at = "failed", !.error = "denied" ] }
               /\ UNCHANGED << adapter, listeners >>
  /\ ev' = [ op |-> "handshake" ]
  /\ UNCHANGED << detector, filter, engine, now, nSamples, nStarts, nCalls,
                  nFaults, broken, returned, session >>

\* MotionEngine.start resumes after `await sensorAdapter.start(...)`
StartSettle ==
  /\ UNCHANGED benchVars
  /\ \E p \in pending, onErrorThrows \in BOOLEAN :
       /\ p.at \in { "started", "failed" }
       /\ pending' = pending \ { p }
       /\ IF p.at = "started"
          THEN /\ ~onErrorThrows
               /\ engine' = setState(engine, "active")
               /\ session' = [ session EXCEPT !.tripped = FALSE ]
               /\ ev' = [ op |-> "startSettled", id |-> p.id, outcome |-> "resolved",
                          error |-> "none", onErrorArgs |-> << >>,
                          rejectedWith |-> "none",
                          notified |-> Notified(engine.state, "active") ]
          ELSE /\ engine' = setState(engine, "idle")
               /\ session' = session
               /\ ev' = [ op |-> "startSettled", id |-> p.id, outcome |-> "rejected",
                          error |-> p.error, onErrorArgs |-> << p.error >>,
                          rejectedWith |-> IF onErrorThrows THEN "handlerError"
                                           ELSE p.error,
                          notified |-> Notified(engine.state, "idle") ]
  /\ UNCHANGED << detector, filter, adapter, listeners, now, nSamples, nStarts,
                  nCalls, nFaults, broken, returned >>

\* mutant: pause() does not look at the lifecycle state
PauseAnyState ==
  /\ UNCHANGED benchVars
  /\ nCalls < MaxCalls
  /\ Effort + CallCost <= MaxEffort
  /\ engine' = setState(engine, "paused")
  /\ ev' = [ op |-> "pause", outcome |-> "ok",
             notified |-> Notified(engine.state, "paused") ]
  /\ nCalls' = nCalls + 1
  /\ UNCHANGED << detector, filter, adapter, listeners, pending, now, nSamples,
                  nStarts, nFaults, broken, returned, session >>

\* engine.pause()
Pause ==
  /\ UNCHANGED benchVars
  /\ nCalls < MaxCalls
  /\ Effort + CallCost <= MaxEffort
  /\ IF engine.state # "active"
     THEN /\ ev' = [ op |-> "pause", outcome |-> "notRunning", notified |-> << >> ]
          /\ UNCHANGED engine
     ELSE /\ engine' = setState(engine, "paused")
          /\ ev' = [ op |-> "pause", outcome |-> "ok",
                     notified |-> Notified(engine.state, "paused") ]
  /\ nCalls' = nCalls + 1
  /\ UNCHANGED << detector, filter, adapter, listeners, pending, now, nSamples,
                  nStarts, nFaults, broken, returned, session >>

\* engine.resume()
Resume ==
  /\ UNCHANGED benchVars
  /\ nCalls < MaxCalls
  /\ Effort + CallCost <= MaxEffort
  /\ IF engine.state # "paused"
     THEN /\ ev' = [ op |-> "resume", outcome |-> "notPaused", notified |-> << >> ]
          /\ UNCHANGED engine
     ELSE /\ engine' = setState(engine, "active")
          /\ ev' = [ op |-> "resume", outcome |-> "ok",
                     notified |-> Notified(engine.state, "active") ]
  /\ nCalls' = nCalls + 1
  /\ UNCHANGED << detector, filter, adapter, listeners, pending, now, nSamples,
                  nStarts, nFaults, broken, returned, session >>

\* engine.stop()
Stop ==
  /\ UNCHANGED benchVars
  /\ nCalls < MaxCalls
  /\ Effort + CallCost <= MaxEffort
  /\ LET w == engineStop(World)
     IN  /\ engine' = w.engine
         /\ adapter' = w.adapter
         /\ listeners' = w.listeners
         /\ ev' = [ op |-> "stop", notified |-> Notified(engine.state, w.engine.state) ]
  /\ session' = [ session EXCEPT !.stopRequested = TRUE ]
  /\ nCalls' = nCalls + 1
  /\ UNCHANGED << detector, filter, pending, now, nSamples, nStarts, nFaults,
                  broken, returned >>

\* engine.setConfig({ detectionConfig })
SetConfig ==
  /\ UNCHANGED benchVars
  /\ nCalls < MaxCalls
  /\ Effort + CallCost <= MaxEffort
  /\ \E c \in ConfigSet :
       /\ c # detector.config
       /\ detector' = detectorSetConfig(detector, c)
  /\ ev' = [ op |-> "setConfig" ]
  /\ nCalls' = nCalls + 1
  /\ UNCHANGED << filter, engine, adapter, listeners, pending, now, nSamples,
                  nStarts, nFaults, broken, returned, session >>

\* the sensor delivers a reading to a registered listener; fault is what
\* throws while it is handled (it must be reached to throw)
Deliver ==
  /\ UNCHANGED benchVars
  /\ IF broken THEN nSamples < MaxBrokenDeliveries ELSE Effort + 1 <= MaxEffort
  /\ \E l \in listeners, s \in RawSamples, dt \in EngDt, fault \in Faults :
       \E r \in { sensorListener(World, [ id |-> nSamples + 1, x |-> s[1],
                                             y |-> s[2], z |-> s[3] ],
                                   now + dt, fault) } :
           /\ now + dt <= MaxTime
           /\ FaultFires(r.obs, fault)
           /\ broken => (r.obs.entered => r.obs.stageError = "processor")
           /\ ~broken => (fault = "none" \/ nFaults < MaxFaults)
           /\ nFaults' = IF ~broken /\ fault # "none" THEN nFaults + 1 ELSE nFaults
           /\ engine' = r.w.engine
           /\ filter' = r.w.filter
           /\ detector' = r.w.detector
           /\ adapter' = r.w.adapter
           /\ listeners' = r.w.listeners
           /\ now' = now + dt
           /\ returned' = IF r.obs.detected = 0 THEN returned
                          ELSE Append(returned, r.obs.detected)
           /\ session' = [ session EXCEPT !.tripped = @ \/ r.obs.tripped,
                                           !.repThrew = @ \/ r.obs.onRepThrew ]
           /\ ev' = [ op |-> "sample", preState |-> engine.state,
                      preErrors |-> engine.consecutivePipelineErrors,
                      preSubscription |-> adapter.subscription,
                      preMetrics |-> << engine.lastRepTimestamp, engine.totalScore,
                                        engine.scoreCount >>,
                      timestamp |-> now + dt - adapter.sessionStartTime,
                      obs |-> r.obs ]
  /\ nSamples' = nSamples + 1
  /\ UNCHANGED << pending, nStarts, nCalls, broken >>

\* environment: from the first sample on, the signal processor throws
BreakProcessor ==
  /\ UNCHANGED benchVars
  /\ ~broken
  /\ nSamples = 0
  /\ StartCost * nStarts + CallCost * nCalls + BreakCost <= MaxEffort
  /\ broken' = TRUE
  /\ ev' = [ op |-> "break" ]
  /\ UNCHANGED << detector, filter, engine, adapter, listeners, pending, now,
                  nSamples, nStarts, nCalls, nFaults, returned, session >>

Next ==
  \/ StartCall \/ AvailResolve \/ PermResolve \/ StartSettle
  \/ Pause \/ Resume \/ Stop \/ SetConfig \/ Deliver \/ BreakProcessor

Spec == Init /\ [][Next]_vars

-----------------------------------------------------------------------------
(* SpecRun: the MotionEngine fed a squat waveform.  The device stands at   *)
(* 1.00 G, its magnitude (on the z axis) descends to 0.20 G over 30        *)
(* samples, holds, ascends back over 30 samples and stands again; samples  *)
(* arrive at 60 Hz.  The descent begins once start() has resolved.         *)

WAVEFORM == [ stand |-> 100, valley |-> 20, ramp |-> 30 ]

\* samples the waveform may hold at the valley before it ascends
HoldLengths == { 1, 30, 120 }

\* 1000 / samplingRate, in whole ms
FeedDt == { 17 }

\* the magnitude i samples into a ramp of the waveform, to the nearest hundredth
RampStep(i) ==
  ((WAVEFORM.stand - WAVEFORM.valley) * i + WAVEFORM.ramp \div 2) \div WAVEFORM.ramp

\* the waveform positions that may follow position f, each with its magnitude
FeedNext(f) ==
  CASE f.leg = "stand" ->
         (IF f.k < MaxStand
          THEN { [ leg |-> "stand", k |-> f.k + 1, m |-> WAVEFORM.stand ] }
          ELSE { })
         \cup
         (IF f.k >= 1 /\ engine.state = "active" /\ pending = {}
          THEN { [ leg |-> "descend", k |-> 1, m |-> WAVEFORM.stand - RampStep(1) ] }
          ELSE { })
    [] f.leg = "descend" ->
         IF f.k < WAVEFORM.ramp
         THEN { [ leg |-> "descend", k |-> f.k + 1,
                  m |-> WAVEFORM.stand - RampStep(f.k + 1) ] }
         ELSE { [ leg |-> "hold", k |-> 1, m |-> WAVEFORM.valley ] }
    [] f.leg = "hold" ->
         (IF \E h \in HoldLengths : h > f.k
          THEN { [ leg |-> "hold", k |-> f.k + 1, m |-> WAVEFORM.valley ] }
          ELSE { })
         \cup
         (IF f.k \in HoldLengths
          THEN { [ leg |-> "ascend", k |-> 1, m |-> WAVEFORM.valley + RampStep(1) ] }
          ELSE { })
    [] f.leg = "ascend" ->
         IF f.k < WAVEFORM.ramp
         THEN { [ leg |-> "ascend", k |-> f.k + 1,
                  m |-> WAVEFORM.valley + RampStep(f.k + 1) ] }
         ELSE { [ leg |-> "done", k |-> 0, m |-> WAVEFORM.stand ] }
    [] f.leg = "done" ->
         { [ leg |-> "done", k |-> Min(f.k + 1, MaxStand), m |-> WAVEFORM.stand ] }

\* the sensor delivers the next sample of the waveform to a registered listener
Feed ==
  /\ UNCHANGED peaks
  /\ nSamples < MaxFeed
  /\ \E l \in listeners, n \in FeedNext(feed), dt \in FeedDt :
       \E r \in { sensorListener(World, [ id |-> nSamples + 1, x |-> 0, y |-> 0,
                                             z |-> n.m ],
                                   now + dt, "none") } :
           /\ feed' = [ feed EXCEPT !.leg = n.leg, !.k = n.k ]
           /\ engine' = r.w.engine
           /\ filter' = r.w.filter
           /\ detector' = r.w.detector
           /\ adapter' = r.w.adapter
           /\ listeners' = r.w.listeners
           /\ now' = now + dt
           /\ returned' = IF r.obs.detected = 0 THEN returned
                          ELSE Append(returned, r.obs.detected)
           /\ session' = [ session EXCEPT !.tripped = @ \/ r.obs.tripped,
                                           !.repThrew = @ \/ r.obs.onRepThrew ]
           /\ ev' = [ op |-> "sample", preState |-> engine.state,
                      preErrors |-> engine.consecutivePipelineErrors,
                      preSubscription |-> adapter.subscription,
                      preMetrics |-> << engine.lastRepTimestamp, engine.totalScore,
                                        engine.scoreCount >>,
                      preBuffer |-> adapter.buffer,
                      preRecent |-> engine.recentData,
                      preDetector |-> detector,
                      timestamp |-> now + dt - adapter.sessionStartTime,
                      obs |-> r.obs ]
  /\ nSamples' = nSamples + 1
  /\ UNCHANGED << pending, nStarts, nCalls, nFaults, broken, scorer >>

NextRun == StartCall \/ AvailResolve \/ PermResolve \/ StartSettle \/ Feed

SpecRun == Init /\ [][NextRun]_vars

-----------------------------------------------------------------------------
(* SpecSession: a workout session.  The engine of SpecRun, whose detector  *)
(* may be reconfigured before the first squat, is fed the waveform up to   *)
(* MaxSquats times in a row; once in the session the sensor may stall at   *)
(* the valley for longer than the phase timeout.                           *)

\* squats of the waveform in one run
MaxSquats == 2

\* how long the sensor may stay silent, ms
StallGaps == { 5100 }

\* the athlete begins another squat right after the last one
FeedAgain ==
  /\ UNCHANGED peaks
  /\ feed.leg = "done"
  /\ feed.k = 0
  /\ feed.squats < MaxSquats
  /\ feed' = [ leg |-> "stand", k |-> MaxStand, squats |-> feed.squats + 1 ]
  /\ ev' = [ op |-> "again" ]
  /\ UNCHANGED << detector, filter, engine, adapter, listeners, pending, now,
                  nSamples, nStarts, nCalls, nFaults, broken, returned, session,
                  scorer >>

\* the sensor delivers nothing for a while (the waveform is at the valley)
SensorStall ==
  /\ feed.leg = "hold" /\ feed.k = 1
  /\ nFaults < MaxFaults
  /\ \E gap \in StallGaps : now' = now + gap
  /\ nFaults' = nFaults + 1
  /\ ev' = [ op |-> "stall" ]
  /\ UNCHANGED << detector, filter, engine, adapter, listeners, pending,
                  nSamples, nStarts, nCalls, broken, returned, session >>
  /\ UNCHANGED benchVars

NextSession == NextRun \/ SetConfig \/ FeedAgain \/ SensorStall

SpecSession == Init /\ [][NextSession]_vars

-----------------------------------------------------------------------------
(* Properties of the detector (checked under SpecDet) *)

\* all in-progress tracking is at its reset value
TrackingReset(d) ==
  /\ d.repStartTime = 0 /\ d.descendStartTime = 0
  /\ d.bottomTime = 0 /\ d.ascendStartTime = 0
  /\ d.peakMagnitude = 0 /\ d.valleyMagnitude = Infinity
  /\ d.peakZValue = 0 /\ d.valleyZValue = 0

\* the five validation checks, as the specification lists them
PassesFiveChecks(rep, cfg) ==
  /\ rep.depth >= cfg.minDepthThreshold
  /\ Abs(rep.features.zAxisChange) >= Abs(cfg.minZAxisChange)
  /\ rep.duration >= cfg.minRepDuration
  /\ rep.duration <= cfg.maxRepDuration
  /\ rep.features.stabilityScore >= cfg.minStabilityScore * 1000
  /\ rep.features.depthScore >= cfg.minDepthScore * 1000

\* the sample of the last detect call arrived past the phase timeout
TimedOut(pre, data) ==
  \/ /\ pre.currentPhase = "descending"
     /\ data.timestamp - pre.descendStartTime > 5000
  \/ /\ pre.currentPhase = "ascending"
     /\ data.timestamp - pre.ascendStartTime > 5000

\* recovery of the last detect call's sample against the frozen valley
Recovery(pre, data) == data.filteredMagnitude - pre.valleyMagnitude

(* C1: within a session the reps returned by detect are numbered 1, 2, ..., N *)
(* in the order returned, getRepCount() equals the number of reps returned so *)
(* far, a call that returns no rep (rejection, timeout) leaves the count      *)
(* alone, and reset() puts the count back to 0.                               *)
C1_RepNumbering ==
  /\ returned = [ i \in 1..Len(returned) |-> i ]
  /\ detector.repCount = Len(returned)
  /\ (ev.op = "detect" /\ ev.rep = NoRep => detector.repCount = ev.pre.repCount)
  /\ (ev.op = "reset" => detector.repCount = 0)

\* two reps have been returned in one session
C1_Witness == returned = << 1, 2 >>

(* C2: detect returns a rep, and increments repCount, exactly when the        *)
(* candidate passes all five checks, and the returned rep has isValid = TRUE; *)
(* when a check fails detect returns null, repCount is unchanged and the      *)
(* detector is idle with all in-progress tracking reset.                      *)
C2_ValidityGate ==
  ev.op = "detect" =>
    /\ (ev.rep # NoRep =>
          /\ ev.candidate # NoRep
          /\ PassesFiveChecks(ev.candidate, ev.pre.config)
          /\ ev.rep.isValid
          /\ detector.repCount = ev.pre.repCount + 1)
    /\ (detector.repCount # ev.pre.repCount => ev.rep # NoRep)
    /\ (ev.candidate # NoRep /\ PassesFiveChecks(ev.candidate, ev.pre.config) =>
          ev.rep # NoRep)
    /\ (ev.candidate # NoRep /\ ~PassesFiveChecks(ev.candidate, ev.pre.config) =>
          /\ ev.rep = NoRep
          /\ detector.repCount = ev.pre.repCount
          /\ detector.currentPhase = "idle"
          /\ TrackingReset(detector))

\* a candidate that reached completion was rejected for its stability score alone
C2_Witness ==
  /\ ev.op = "detect"
  /\ ev.candidate # NoRep
  /\ ev.rep = NoRep
  /\ ev.candidate.features.stabilityScore < ev.pre.config.minStabilityScore * 1000
  /\ PassesFiveChecks(ev.candidate, [ ev.pre.config EXCEPT !.minStabilityScore = 0 ])

(* C3: a sample processed while ascending whose recovery (filtered magnitude  *)
(* minus the frozen valley) is below minDepthThreshold returns no rep and     *)
(* leaves repCount unchanged; a rep is returned only by an ascending sample   *)
(* whose recovery reaches the threshold; and the cycle is abandoned to idle   *)
(* by the first sample arriving more than 5000 ms after the ascent began, so  *)
(* the detector is never left ascending past that deadline.                   *)
C3_LowRecoveryNeverCounts ==
  /\ (ev.op = "detect" /\ ev.pre.currentPhase = "ascending"
        /\ Recovery(ev.pre, ev.data) < ev.pre.config.minDepthThreshold =>
          /\ ev.rep = NoRep
          /\ detector.repCount = ev.pre.repCount
          /\ IF ev.data.timestamp - ev.pre.ascendStartTime > 5000
             THEN detector.currentPhase = "idle"
             ELSE detector.currentPhase = "ascending")
  /\ (ev.op = "detect" /\ ev.rep # NoRep =>
          /\ ev.pre.currentPhase = "ascending"
          /\ Recovery(ev.pre, ev.data) >= ev.pre.config.minDepthThreshold)
  /\ (detector.currentPhase = "ascending" => now - detector.ascendStartTime <= 5000)

\* an ascent whose recovery stayed low was abandoned to idle
C3_Witness ==
  /\ ev.op = "detect"
  /\ ev.pre.currentPhase = "ascending"
  /\ Recovery(ev.pre, ev.data) < ev.pre.config.minDepthThreshold
  /\ detector.currentPhase = "idle"

(* C4: a sample arriving more than 5000 ms after descendStartTime while       *)
(* descending, or after ascendStartTime while ascending, returns the detector *)
(* to idle with all rep tracking reset, returns no rep and leaves repCount    *)
(* unchanged, whatever trigger the sample would otherwise have satisfied.     *)
C4_PhaseTimeout ==
  ev.op = "detect" /\ TimedOut(ev.pre, ev.data) =>
    /\ detector.currentPhase = "idle"
    /\ TrackingReset(detector)
    /\ ev.rep = NoRep
    /\ detector.repCount = ev.pre.repCount

\* a timed-out sample that would have satisfied the bottom trigger
C4_Witness ==
  /\ ev.op = "detect"
  /\ TimedOut(ev.pre, ev.data)
  /\ ev.pre.currentPhase = "descending"
  /\ ev.data.filteredMagnitude - Min(ev.pre.valleyMagnitude, ev.data.filteredMagnitude)
       > MAGNITUDE_RISE_THRESHOLD

\* the shortest gap between two samples handed to detect
MinDetDt == CHOOSE dt \in DetDt : \A other \in DetDt : dt <= other

(* C22: a detect call changes the phase along at most one edge, and only   *)
(* along idle -> descending (exactly when peak - current > 0.30),          *)
(* descending -> idle (exactly on timeout), descending -> bottom (exactly  *)
(* when, without timeout, current - valley > 0.15), bottom -> ascending    *)
(* (always, so bottom lasts one sample) and ascending -> idle (exactly on  *)
(* timeout or when the recovery reaches minDepthThreshold); the phase is   *)
(* never 'completed', and a candidate is built no earlier than the fourth  *)
(* sample from descent onset.                                              *)
C22_PhaseEdges ==
  /\ detector.currentPhase \in { "idle", "descending", "bottom", "ascending" }
  /\ ev.op = "detect" =>
       LET from == ev.pre.currentPhase
           to == detector.currentPhase
           m == ev.data.filteredMagnitude
       IN  /\ from = "idle" =>
                to = (IF Max(ev.pre.peakMagnitude, m) - m > 30
                      THEN "descending" ELSE "idle")
           /\ from = "descending" =>
                to = (IF TimedOut(ev.pre, ev.data) THEN "idle"
                      ELSE IF m - ev.pre.valleyMagnitude > 15 THEN "bottom"
                      ELSE "descending")
           /\ from = "bottom" => to = "ascending"
           /\ from = "ascending" =>
                to = (IF TimedOut(ev.pre, ev.data)
                         \/ Recovery(ev.pre, ev.data) >= ev.pre.config.minDepthThreshold
                      THEN "idle" ELSE "ascending")
           /\ ev.candidate # NoRep =>
                (from = "ascending" /\ ev.candidate.duration >= 3 * MinDetDt)

\* a rep was returned as early as the detector allows: on the second sample
\* after the one that left descending
C22_Witness ==
  /\ ev.op = "detect" /\ ev.rep # NoRep
  /\ ev.pre.currentPhase = "ascending" /\ detector.currentPhase = "idle"
  /\ ev.data.timestamp - ev.pre.bottomTime = 2 * MinDetDt
  /\ ev.rep.duration = 4 * MinDetDt

\* the least and the greatest element of a non-empty set of numbers
SetMin(S) == CHOOSE v \in S : \A other \in S : v <= other
SetMax(S) == CHOOSE v \in S : \A other \in S : v >= other

(* C23: the zAxisChange of every candidate is the minimum minus the        *)
(* maximum of the filteredZ values tracked while the detector was          *)
(* descending or at the bottom for that rep; so a candidate whose tracked  *)
(* filteredZ never changed has zAxisChange = 0 and, when minZAxisChange is *)
(* not 0, is rejected.                                                     *)
C23_ZAxisChange ==
  (ev.op = "detect" /\ ev.candidate # NoRep) =>
    /\ ev.tracked # { }
    /\ ev.candidate.features.zAxisChange = SetMin(ev.tracked) - SetMax(ev.tracked)
    /\ (Cardinality(ev.tracked) = 1 /\ ev.pre.config.minZAxisChange # 0) =>
         (ev.candidate.features.zAxisChange = 0 /\ ev.rep = NoRep)

(* C24: a sample processed while the detector is ascending leaves the      *)
(* valley magnitude and the z-axis peak and valley as they were when the   *)
(* bottom was left: unchanged if the detector stays ascending, and the     *)
(* values the recovery is measured against and the candidate is built from *)
(* if it completes.                                                        *)
C24_AscendingFrozen ==
  (ev.op = "detect" /\ ev.pre.currentPhase = "ascending") =>
    /\ detector.currentPhase = "ascending" =>
         /\ detector.valleyMagnitude = ev.pre.valleyMagnitude
         /\ detector.peakZValue = ev.pre.peakZValue
         /\ detector.valleyZValue = ev.pre.valleyZValue
    /\ ev.candidate # NoRep =>
         /\ ev.candidate.features.valleyMagnitude = ev.pre.valleyMagnitude
         /\ ev.candidate.features.zAxisChange
              = ev.pre.valleyZValue - ev.pre.peakZValue
         /\ ev.data.filteredMagnitude - ev.pre.valleyMagnitude
              >= ev.pre.config.minDepthThreshold

\* an ascending detector stayed ascending on a sample whose filteredZ is
\* above the tracked peak
C24_Witness ==
  /\ ev.op = "detect"
  /\ ev.pre.currentPhase = "ascending" /\ detector.currentPhase = "ascending"
  /\ ev.data.filteredZ > ev.pre.peakZValue

(* C25: for samples of non-negative magnitude, in every state of the       *)
(* detector a valley magnitude that has been set (is finite) is no greater *)
(* than the peak magnitude, and the valley magnitude of an idle detector   *)
(* is the +Infinity sentinel.                                              *)
C25_ValleyBelowPeak ==
  /\ isFinite(detector.valleyMagnitude) =>
       detector.valleyMagnitude <= detector.peakMagnitude
  /\ detector.currentPhase = "idle" => detector.valleyMagnitude = Infinity

\* in the descent of a second rep the valley is set and below the peak
C25_Witness ==
  /\ detector.repCount = 1
  /\ detector.currentPhase = "descending"
  /\ isFinite(detector.valleyMagnitude)
  /\ detector.valleyMagnitude < detector.peakMagnitude

(* C26: whenever the completion trigger fires, the candidate's depth (peak *)
(* minus valley) is at least the recovery that fired it and so at least    *)
(* minDepthThreshold: validation check 1 rejects no candidate, and a       *)
(* rejected candidate fails one of the other checks.                       *)
C26_DepthCoversRecovery ==
  (ev.op = "detect" /\ ev.candidate # NoRep) =>
    /\ Recovery(ev.pre, ev.data) >= ev.pre.config.minDepthThreshold
    /\ ev.candidate.depth >= Recovery(ev.pre, ev.data)
    /\ ev.candidate.depth >= ev.pre.config.minDepthThreshold
    /\ ev.rep = NoRep =>
         \/ Abs(ev.candidate.features.zAxisChange) < Abs(ev.pre.config.minZAxisChange)
         \/ ev.candidate.duration < ev.pre.config.minRepDuration
         \/ ev.candidate.duration > ev.pre.config.maxRepDuration
         \/ ev.candidate.features.stabilityScore < ev.pre.config.minStabilityScore * 1000
         \/ ev.candidate.features.depthScore < ev.pre.config.minDepthScore * 1000

\* the trigger fired on a recovery smaller than the depth, and the
\* candidate was rejected
C26_Witness ==
  /\ ev.op = "detect" /\ ev.candidate # NoRep
  /\ ev.candidate.depth > Recovery(ev.pre, ev.data)
  /\ ev.rep = NoRep

-----------------------------------------------------------------------------
(* Properties of the MotionEngine (checked under Spec) *)

\* the last step was a delivered sample
Sampled == ev.op = "sample"

(* C5: stop() is final.  Once stop() has been called and no start() call   *)
(* is suspended any more, the engine is not active, no sensor listener is  *)
(* registered, and no sample is processed and no rep callback fires, until *)
(* start() is called again.                                                *)
C5_StopIsFinal ==
  (session.stopRequested /\ pending = {}) =>
     /\ engine.state # "active"
     /\ listeners = {}
     /\ Sampled => (~ev.obs.entered /\ ev.obs.rep = NoRep)

C7_ErrorBudget ==
  Sampled =>
    /\ ev.obs.stageError # "none" =>
         engine.consecutivePipelineErrors = ev.preErrors + 1
    /\ (ev.preErrors > 0 /\ engine.consecutivePipelineErrors = 0) =>
         (ev.obs.entered /\ ev.obs.stageError = "none")

(* C8: an exception thrown by the onError handler never leaves the         *)
(* per-sample handler.                                                     *)
C8_OnErrorIsolated ==
  Sampled => ~ev.obs.propagated

C10_StartContract ==
  /\ (ev.op = "start" /\ ev.outcome = "alreadyRunning") =>
       (engine.state = "active" /\ ev.notified = << >>)
  /\ (ev.op = "startSettled" /\ ev.outcome = "rejected") =>
       /\ engine.state = "idle"
       /\ ev.error \in { "unavailable", "denied", "alreadyStarted" }
       /\ ev.onErrorArgs = << ev.error >>
       /\ ev.rejectedWith = ev.error
  /\ (ev.op = "startSettled" /\ ev.outcome = "resolved") =>
       engine.state = "active"

\* the state changes the lifecycle allows
LifecycleEdges ==
  { << "idle", "starting" >>, << "stopped", "starting" >>,
    << "starting", "active" >>, << "starting", "idle" >>,
    << "active", "paused" >>, << "paused", "active" >>,
    << "starting", "stopped" >>, << "active", "stopped" >>,
    << "paused", "stopped" >> }

(* C11: the lifecycle state changes only along idle -> starting, stopped -> *)
(* starting, starting -> active, starting -> idle, active -> paused,       *)
(* paused -> active and starting/active/paused -> stopped; the state       *)
(* becomes stopped only through stop() (called by the user or by the       *)
(* circuit breaker), and paused is left only by resume() and stop().       *)
C11_LifecycleEdges ==
  [][ engine'.state # engine.state =>
        /\ << engine.state, engine'.state >> \in LifecycleEdges
        /\ engine'.state = "stopped" =>
             (ev'.op = "stop" \/ (ev'.op = "sample" /\ ev'.obs.tripped))
        /\ engine.state = "paused" => ev'.op \in { "resume", "stop" } ]_vars

(* C12: pause() succeeds exactly from active and leaves the engine paused, *)
(* resume() exactly from paused and leaves it active, each with one        *)
(* onStateChange notification and no other change; from any other state    *)
(* the call throws and changes neither the lifecycle state, the adapter    *)
(* and its subscription, the session counters nor the pipeline, and        *)
(* notifies nobody.                                                        *)
C12_PauseResume ==
  [][ /\ ev'.op = "pause" =>
           /\ << detector', filter', adapter', listeners' >>
                = << detector, filter, adapter, listeners >>
           /\ IF engine.state = "active"
              THEN /\ ev'.outcome = "ok"
                   /\ engine' = [ engine EXCEPT !.state = "paused" ]
                   /\ ev'.notified = << "paused" >>
              ELSE /\ ev'.outcome = "notRunning"
                   /\ engine' = engine
                   /\ ev'.notified = << >>
      /\ ev'.op = "resume" =>
           /\ << detector', filter', adapter', listeners' >>
                = << detector, filter, adapter, listeners >>
           /\ IF engine.state = "paused"
              THEN /\ ev'.outcome = "ok"
                   /\ engine' = [ engine EXCEPT !.state = "active" ]
                   /\ ev'.notified = << "active" >>
              ELSE /\ ev'.outcome = "notPaused"
                   /\ engine' = engine
                   /\ ev'.notified = << >> ]_vars

\* pause() was called on a paused engine whose subscription is live
C12_Witness ==
  /\ ev.op = "pause" /\ ev.outcome = "notRunning"
  /\ engine.state = "paused"
  /\ adapter.subscription \in listeners

(* C13: a sample delivered while the engine is not active (paused, idle,   *)
(* starting, stopped) changes nothing in the pipeline: the filter, the     *)
(* detector, the recent-sample cache, the score totals, lastRepTimestamp   *)
(* and the error counter are unchanged and no callback is invoked, while   *)
(* the adapter still buffers the sample; and pause() leaves the adapter's  *)
(* subscription in place.                                                  *)
C13_InactiveDiscards ==
  [][ /\ (ev'.op = "sample" /\ engine.state # "active") =>
           /\ filter' = filter
           /\ detector' = detector
           /\ engine' = engine
           /\ ev'.obs = NoObs
           /\ adapter'.buffer # << >>
           /\ adapter'.buffer[Len(adapter'.buffer)] = nSamples'
      /\ ev'.op = "pause" =>
           (adapter' = adapter /\ listeners' = listeners) ]_vars

\* a sample was delivered to a paused engine after one was processed
C13_Witness ==
  /\ Sampled /\ ev.preState = "paused"
  /\ ~ev.obs.entered
  /\ Len(engine.recentData) = 1
  /\ Len(adapter.buffer) = 2

-----------------------------------------------------------------------------
(* Properties of the fed MotionEngine (checked under SpecRun) *)

\* the last n elements of s (all of s when it has no more than n)
LastOf(s, n) ==
  IF Len(s) <= n THEN s ELSE SubSeq(s, Len(s) - n + 1, Len(s))

(* C14: bounded buffers.  The adapter's buffer never holds more than       *)
(* bufferSize samples and the recent-sample cache never more than 60; a    *)
(* delivered sample leaves the adapter's buffer, and a processed sample    *)
(* the cache, holding exactly the most recent samples in arrival order,    *)
(* the oldest evicted first.                                               *)
C14_BoundedBuffers ==
  /\ Len(adapter.buffer) <= adapter.config.bufferSize
  /\ Len(engine.recentData) <= 60
  /\ Sampled =>
       adapter.buffer = LastOf(Append(ev.preBuffer, nSamples), adapter.config.bufferSize)
  /\ (Sampled /\ ev.obs.entered) =>
       engine.recentData = LastOf(Append(ev.preRecent, nSamples), 60)

\* both buffers are full and have evicted samples
C14_Witness ==
  /\ Sampled /\ ev.obs.entered
  /\ Len(adapter.buffer) = adapter.config.bufferSize
  /\ adapter.buffer[1] = nSamples - adapter.config.bufferSize + 1
  /\ adapter.buffer[1] > 2
  /\ Len(engine.recentData) = 60
  /\ engine.recentData[1] = nSamples - 59

(* C15: end-to-end scenario.  An engine started once and fed the waveform  *)
(* emits exactly one rep: the rep it emits is valid, has a depth of about  *)
(* 0.8 G (within 0.1 G) and a non-zero overall score, and when the         *)
(* waveform is back at standing exactly one rep has been emitted.          *)
C15_EndToEnd ==
  nStarts = 1 =>
    /\ (Sampled /\ ev.obs.rep # NoRep) =>
         /\ ev.obs.rep.isValid
         /\ Abs(ev.obs.rep.depth - (WAVEFORM.stand - WAVEFORM.valley)) <= 10
         /\ ev.obs.rep.score.overall > 0
    /\ Len(returned) <= 1
    /\ feed.leg = "done" => (returned = << 1 >> /\ engine.scoreCount = 1)

-----------------------------------------------------------------------------
(* Properties of a workout session (checked under SpecSession) *)

(* C21: onRepDetected is invoked only by a sample delivered to an active   *)
(* engine, only with the rep detect returned on that sample, which is      *)
(* valid and carries its score; the reps it is invoked with are numbered   *)
(* in strictly increasing order within a session, each once; and a sample  *)
(* whose candidate failed validation, or which found the phase timed out,  *)
(* invokes no callback.                                                    *)
C21_RepCallback ==
  /\ \A i, j \in 1..Len(returned) : i < j => returned[i] < returned[j]
  /\ Sampled =>
       /\ ev.obs.rep # NoRep =>
            /\ ev.preState = "active"
            /\ ev.obs.rep.isValid
            /\ ev.obs.rep.score.overall \in 0..100
            /\ ev.obs.rep.repNumber = ev.obs.detected
            /\ ev.obs.rep.repNumber = ev.preDetector.repCount + 1
            /\ returned # << >> /\ returned[Len(returned)] = ev.obs.rep.repNumber
       /\ ev.obs.rejected => ev.obs.rep = NoRep
       /\ (ev.preState = "active"
             /\ TimedOut(ev.preDetector, [ timestamp |-> ev.timestamp ])) =>
            ev.obs.rep = NoRep
       /\ ev.obs.rep = NoRep => Len(returned) = ev.preDetector.repCount

\* the callback is invoked for the second rep of a session
C21_Witness ==
  /\ Sampled /\ ev.obs.rep # NoRep
  /\ ev.obs.rep.repNumber = 2
  /\ returned = << 1, 2 >>
  /\ engine.scoreCount = 2

-----------------------------------------------------------------------------
(* Properties of the ScoringEngine (checked under SpecScore) *)

\* v is a finite number of whole points within 0..100
InScoreRange(v) == ~isNaN(v) /\ isFinite(v) /\ v >= 0 /\ v <= 100

(* C16: whatever weights the engine accepted and whatever the feature      *)
(* scores (NaN, infinite, out of range), the depth, stability, consistency *)
(* and overall that score() returns are finite and within 0..100.          *)
C16_ScoresInRange ==
  ev.op = "score" =>
    /\ InScoreRange(ev.result.depth)
    /\ InScoreRange(ev.result.stability)
    /\ InScoreRange(ev.result.consistency)
    /\ InScoreRange(ev.result.overall)

(* C17: the technique label of a RepScore agrees with the overall of the   *)
(* same RepScore: excellent iff overall >= 85, optimal iff 70 <= overall   *)
(* < 85, good iff 50 <= overall < 70, acceptable iff 0 <= overall < 50.    *)
C17_LabelMatchesOverall ==
  (ev.op = "score" /\ ~isNaN(ev.result.overall)) =>
    /\ ev.result.technique = "excellent" <=> ev.result.overall >= 85
    /\ ev.result.technique = "optimal" <=>
         (ev.result.overall >= 70 /\ ev.result.overall < 85)
    /\ ev.result.technique = "good" <=>
         (ev.result.overall >= 50 /\ ev.result.overall < 70)
    /\ ev.result.technique = "acceptable" <=>
         (ev.result.overall >= 0 /\ ev.result.overall < 50)

(* C18: with the default weights score() never labels a rep 'poor',        *)
(* whatever the feature scores.                                            *)
C18_NeverPoor ==
  (ev.op = "score" /\ ev.weights = DEFAULT_WEIGHTS) =>
    ev.result.technique # "poor"

\* features below zero and not a number were scored with the default weights
C18_Witness ==
  /\ ev.op = "score" /\ ev.weights = DEFAULT_WEIGHTS
  /\ ev.features.depthScore = -10000
  /\ isNaN(ev.features.stabilityScore)
  /\ ev.features.rangeScore = -Infinity
  /\ ev.result.technique = "acceptable"
  /\ ev.result.overall = 0

-----------------------------------------------------------------------------
(* Properties of the LowPassFilter (checked under SpecFilter) *)

\* out is alpha * raw + (1 - alpha) * previous, to the nearest hundredth
IsBlend(alpha, raw, previous, out) ==
  Abs(100 * out - (alpha * raw + (100 - alpha) * previous)) <= 50

(* C19: the first filter call after construction or after reset() returns  *)
(* the raw triple unchanged; every later call returns, on each axis,       *)
(* alpha * raw + (1 - alpha) * previous output, where the previous output  *)
(* is what the preceding call returned.                                    *)
C19_LowPassRecurrence ==
  ev.op = "filter" =>
    IF ev.prevOut = << >>
    THEN ev.out = ev.raw
    ELSE \A i \in 1..3 : IsBlend(ev.alpha, ev.raw[i], ev.prevOut[i], ev.out[i])

\* a third call in a row blended a raw triple with a blended one
C19_Witness ==
  /\ ev.op = "filter"
  /\ ev.prevOut # << >> /\ ev.prevOut \notin FilterInputs
  /\ ev.alpha = 22
  /\ ev.out # ev.raw /\ ev.out # ev.prevOut

(* C20: the constructor and setAlpha throw for every alpha that is not     *)
(* strictly between 0 and 1, the values 0 and 1 included, and a call that  *)
(* throws leaves the alpha in force unchanged.                             *)
C20_AlphaRange ==
  ev.op \in { "newFilter", "setAlpha" } =>
    /\ (ev.alpha <= 0 \/ ev.alpha >= 100) => ev.outcome = "threw"
    /\ ev.outcome = "threw" => filter.alpha = ev.preAlpha

-----------------------------------------------------------------------------
(* Properties of the MotionEngine and its adapter (checked under Spec) *)

(* C27: whenever no start() call is suspended, an engine that is idle or   *)
(* stopped has an adapter that is not active and holds no subscription,    *)
(* and no sensor listener is registered.                                   *)
C27_IdleAdapterReleased ==
  (pending = {} /\ engine.state \in { "idle", "stopped" }) =>
     /\ ~adapter.isActive
     /\ adapter.subscription = 0
     /\ listeners = {}

(* C28: however start() calls interleave, at most one sensor listener is   *)
(* registered at a time (so a reading is handed to the pipeline once), the *)
(* adapter holds the subscription of every registered listener, and after  *)
(* a stop() of a running engine no listener is registered.                 *)
C28_SingleSubscription ==
  /\ Cardinality(listeners) <= 1
  /\ listeners \subseteq { adapter.subscription }
  /\ (ev.op = "stop" /\ ev.notified = << "stopped" >>) => listeners = {}

-----------------------------------------------------------------------------
(* Properties of the PeakDetector (checked under SpecPeak) *)

\* the last step was a findPeaks or findValleys call on the window
Found == ev.op \in { "findPeaks", "findValleys" }

\* the signal the last call scanned
Scanned ==
  [ i \in 1..Len(peaks.window) |->
      IF ev.isValley THEN peaks.window[i].filteredZ
      ELSE peaks.window[i].filteredMagnitude ]

\* indices of the local extrema of the scanned signal that pass the
\* prominence threshold
Candidates ==
  { i \in 1..(Len(peaks.window) - 2) :
      /\ IF ev.isValley
         THEN At(Scanned, i) < At(Scanned, i - 1) /\ At(Scanned, i) < At(Scanned, i + 1)
         ELSE At(Scanned, i) > At(Scanned, i - 1) /\ At(Scanned, i) > At(Scanned, i + 1)
      /\ calculateProminence(Scanned, i, ev.isValley) >= peaks.config.prominence }

\* indices of the extrema the last call returned
Returned == { ev.result[k].index : k \in 1..Len(ev.result) }

Side(signal, lo, hi) ==
  { At(signal, j) : j \in Max(0, lo)..Min(Len(signal) - 1, hi) }

(* C30: the prominence of a returned extremum at index i is measured       *)
(* against the 10 samples on each side, i-10..i-1 and i+1..i+10, cut at    *)
(* the ends of the window: for a peak its value minus the mean of the two  *)
(* sides' minima, for a valley the mean of the two sides' maxima minus its *)
(* value.                                                                  *)
C30_ProminenceWindow ==
  Found =>
    \A k \in 1..Len(ev.result) :
      LET i == ev.result[k].index
          left == Side(Scanned, i - 10, i - 1)
          right == Side(Scanned, i + 1, i + 10)
      IN  ev.result[k].prominence =
            (IF ev.isValley
             THEN (SetMax(left) + SetMax(right)) \div 2 - ev.result[k].value
             ELSE ev.result[k].value - (SetMin(left) + SetMin(right)) \div 2)

=============================================================================
